---- MODULE Spec2Model ----
(***************************************************************************)
(* A model of src/src/generate_loan_portfolio.py: the generation routine   *)
(* generate_loan_portfolio(n_loans, random_seed) and the script entry      *)
(* main(), which creates the data directory, generates the portfolio and   *)
(* writes it to loan_portfolio.csv and loan_portfolio.xlsx.                *)
(*                                                                         *)
(* Units.  Real-valued columns are fixed-point integers:                   *)
(*   pd_1y, interest_rate, spreads     basis points (1e-4)                 *)
(*   lgd, ltv_target, ltv, noise       percent (1e-2)                      *)
(*   ead, collateral_value             currency units                      *)
(*   provision_amount                  1e-2 currency units                 *)
(* Dates are day numbers relative to today = datetime(2025, 1, 1) = 0; all *)
(* date arithmetic of the code adds whole days to midnight.                *)
(* A missing value (NaN, NaT) is the empty tuple <<>>; a present value x   *)
(* of a nullable column is <<x>>.                                          *)
(*                                                                         *)
(* The random source.  rng = np.random.default_rng(random_seed) is a       *)
(* seeded stream: the k-th request of a generator built from one seed      *)
(* returns the same values whenever the same request is made at position   *)
(* k.  The first call fixes the values (any value of the distribution's    *)
(* range the scenario samples) and records them on the tape; a later call  *)
(* with the same seed reads the tape as long as its requests agree.        *)
(***************************************************************************)
EXTENDS Integers, Sequences, FiniteSets, TLC

VARIABLES
    scenario,     \* the sample of the environment this run is explored under
    n_loans,      \* argument of generate_loan_portfolio
    random_seed,  \* argument of generate_loan_portfolio
    pc,           \* position in main / generate_loan_portfolio
    err,          \* the exception that ended the run, "none" if none
    call,         \* 0 before the first call of generate_loan_portfolio, then 1, 2
    rngpos,       \* requests the current rng has served
    tape,         \* requests and values of the stream seeded with random_seed
    loc,          \* local variables of generate_loan_portfolio
    returned,     \* the DataFrames returned so far, in call order
    dirExists,    \* DATA_DIR exists
    csv,          \* loan_portfolio.csv on disk
    xlsx          \* loan_portfolio.xlsx on disk

vars == <<scenario, n_loans, random_seed, pc, err, call, rngpos, tape, loc,
          returned, dirExists, csv, xlsx>>

(***************************************************************************)
(* Bounds of the exploration.                                              *)
(***************************************************************************)
MaxLoans == 2
MaxNegLoans == 2

LoanCounts == (0 - MaxNegLoans) .. MaxLoans

(***************************************************************************)
(* Constants of the source.                                                *)
(***************************************************************************)
segments == <<"Retail", "SME", "Corporate">>
segment_p == <<50, 30, 20>>
countries == <<"DE", "FR", "IT", "ES", "NL">>
currencies == <<"EUR", "USD", "GBP">>
currency_p == <<80, 15, 5>>
\* A reference date read from the clock, which moves on between two calls.
today_clock == call
today == 0
base_rate == 200
rating_bins == <<0, 50, 100, 200, 500, 10000>>
rating_labels == <<"AAA", "AA", "A", "BBB", "BB/B">>
\* pd.cut with right=False: bins closed on the left.
CutLeftClosed == FALSE
\* pd.cut(..., include_lowest=True) with the default right=True
CutRightClosed == TRUE
CutIncludeLowest == TRUE

NaN == <<>>
NaT == <<>>

Range(s) == {s[i] : i \in DOMAIN s}
Rows == 1 .. n_loans
Mask(col, v) == {i \in DOMAIN col : col[i] = v}

\* The k-th smallest element of a finite set of integers (k from 1).
RECURSIVE Nth(_, _)
Nth(S, k) ==
    LET m == CHOOSE x \in S : \A y \in S : x <= y
    IN  IF k = 1 THEN m ELSE Nth(S \ {m}, k - 1)

\* Position (from 1) of i among the elements of S in ascending order.
RankIn(S, i) == Cardinality({j \in S : j <= i})

(***************************************************************************)
(* Scenarios: which values of each distribution's range a run samples,     *)
(* which seeds, whether DATA_DIR may exist already and whether the file    *)
(* system raises faults.  The ranges themselves are in the draw actions; a *)
(* scenario only picks the values explored, and a picked value outside the *)
(* range of its distribution is never drawn.                               *)
(***************************************************************************)
BaseScenario ==
    [ name      |-> "base",
      seg       |-> {"Retail"},
      country   |-> {"DE"},
      origOff   |-> {400},
      matYears  |-> {9},
      currency  |-> {"EUR"},
      spreadR   |-> {200},
      spreadS   |-> {300},
      spreadC   |-> {150},
      pdR       |-> {300},
      pdS       |-> {700},
      pdC       |-> {30},
      lgd       |-> {45},
      ead       |-> {22000},
      coll      |-> {1},
      ltvR      |-> {50},
      ltvS      |-> {60},
      ltvC      |-> {70},
      bern      |-> {0},
      ddOff     |-> {0},
      dpdDef    |-> {90},
      dpdPerf   |-> {0},
      noise     |-> {100},
      faults    |-> FALSE,
      dir       |-> {FALSE},
      seeds     |-> {42} ]

AllSegments == Range(segments)

Scenarios ==
    { [BaseScenario EXCEPT !.name = "faults", !.faults = TRUE, !.dir = BOOLEAN,
          !.seeds = {-1, 0, 42}],
      [BaseScenario EXCEPT !.name = "rating",
          !.pdR = {0, 1, 50, 51, 100, 101, 200, 201, 500, 501, 9999, 10000}],
      [BaseScenario EXCEPT !.name = "dates",
          !.origOff = {0, 1, 366, 1825}, !.matYears = {0, 1, 9, 10},
          !.bern = {0, 1}, !.ddOff = {0, 365, 366, 367}],
      [BaseScenario EXCEPT !.name = "spreads", !.seg = AllSegments,
          !.spreadR = {150, 200}, !.spreadS = {300, 370}],
      [BaseScenario EXCEPT !.name = "pds", !.seg = AllSegments,
          !.pdR = {30, 300}, !.pdS = {80, 700}],
      [BaseScenario EXCEPT !.name = "collateral", !.seg = {"Retail", "Corporate"},
          !.coll = {0, 1}, !.ead = {0, 8000, 22000},
          !.ltvR = {29, 30}, !.ltvC = {89, 90}],
      [BaseScenario EXCEPT !.name = "ltv", !.seg = AllSegments,
          !.ltvR = {30, 79, 80}, !.ltvS = {39, 40, 89}],
      [BaseScenario EXCEPT !.name = "delinquency",
          !.lgd = {19, 20, 69, 70}, !.bern = {0, 1},
          !.dpdDef = {89, 90, 360, 361}, !.dpdPerf = {0, 29, 30}],
      [BaseScenario EXCEPT !.name = "provisions", !.country = {"DE", "NL"},
          !.currency = {"EUR", "GBP"}, !.noise = {79, 80, 119, 120}] }

(***************************************************************************)
(* The seeded random source.                                               *)
(***************************************************************************)
Req(method, args, size) == [method |-> method, args |-> args, size |-> size]

\* The values a request can return: on a second call with the same seed the
\* stream repeats as long as the request made at this position is the same.
Outcomes(req, S) ==
    IF call = 2 /\ rngpos < Len(tape) /\ tape[rngpos + 1].req = req
    THEN {tape[rngpos + 1].val}
    ELSE S

Consume(group, req, v) ==
    /\ rngpos' = rngpos + 1
    /\ tape' = IF call = 1
               THEN Append(tape, [group |-> group, req |-> req, val |-> v])
               ELSE tape

\* The sampled part of a distribution's range.
Pick(range, picks) == {x \in picks : x \in range}
VecOf(size, S) == [1 .. size -> S]

\* Generator.integers(low, high): low <= x < high.
IntegersRange(low, high) == low .. (high - 1)
\* A generator that never rejects its bounds or size.
IntegersNeverRaises(low, high, size) == FALSE
\* Generator.integers returns an empty array for size 0 before it looks at the
\* bounds; otherwise low >= high (and a negative size) is a ValueError, raised
\* before anything is drawn.
IntegersRaises(low, high, size) ==
    IF size = 0 THEN FALSE ELSE low >= high \/ size < 0
\* Generator.uniform(a, b): a <= x < b (percent).
UniformRange(a, b) == a .. (b - 1)
\* Generator.beta: 0 < x < 1 (basis points).
BetaRange == 1 .. 9999
\* Generator.normal: any real.
NormalRange == Int
\* np.exp of a normal draw: any positive real.
LogNormalRange == {x \in Nat : x > 0}
\* Generator.binomial(1, p): 0 or 1, only 0 when p = 0, only 1 when p = 1.
BinomialRange(p) ==
    {b \in {0, 1} : (b = 1 => p > 0) /\ (b = 0 => p < 10000)}

(***************************************************************************)
(* Pure helpers of the generation routine.                                 *)
(***************************************************************************)
\* Float division, in fixed point.
FDiv(a, b) == a \div b
\* Float multiplication by a percentage, in fixed point.
FMul(a, pct) == (a * pct) \div 100
\* expected_loss = pd_1y * lgd * ead, in 1e-2 currency units
ExpectedLoss(p, l, e) == FMul(FMul(p, l) * e, 1)

\* x[segment == "Retail"] = a[segment == "Retail"] and so on for the three
\* segments: each row takes the element at its own index from the vector of
\* its segment.
SelectBySegment(seg, retail, sme, corp) ==
    [i \in DOMAIN seg |->
        CASE seg[i] = "Retail"    -> retail[i]
          [] seg[i] = "SME"       -> sme[i]
          [] seg[i] = "Corporate" -> corp[i]]

\* x[mask] = vec for a vector with one element per row of the mask: the
\* elements go to the rows of the mask in ascending row order.
MaskAssign(old, mask, vec) ==
    [i \in (DOMAIN old) \cup mask |->
        IF i \in mask THEN vec[RankIn(mask, i)] ELSE old[i]]

\* pd.cut(x, bins, labels, right, include_lowest) for one value.
InBin(x, i) ==
    IF CutRightClosed
    THEN \/ rating_bins[i] < x /\ x <= rating_bins[i + 1]
         \/ CutIncludeLowest /\ i = 1 /\ x = rating_bins[1]
    ELSE \/ rating_bins[i] <= x /\ x < rating_bins[i + 1]
         \/ CutIncludeLowest /\ i = Len(rating_bins) - 1
                             /\ x = rating_bins[i + 1]

Cut(x) ==
    LET hit == {i \in 1 .. (Len(rating_bins) - 1) : InBin(x, i)}
    IN  IF hit = {} THEN "NaN" ELSE rating_labels[CHOOSE i \in hit : TRUE]

\* pd.to_datetime(col).dt.date: the calendar day of each timestamp; a
\* missing timestamp stays missing.  Timestamps here are whole days.
DtDate(d) == d

Min(a, b) == IF a <= b THEN a ELSE b

(***************************************************************************)
(* Program order of generate_loan_portfolio.                               *)
(***************************************************************************)
\* The program order with the segment and country draws exchanged.
GenStepsCountryFirst ==
    << "borrower_id", "country", "segment", "origination", "maturity",
       "currency", "spread_retail", "spread_sme", "spread_corp",
       "interest_rate", "pd_retail", "pd_sme", "pd_corp", "pd_1y", "lgd",
       "ead", "has_collateral", "ltv_retail", "ltv_sme", "ltv_corp",
       "collateral", "is_default", "default_date", "dpd_default",
       "dpd_perf", "provision", "rating", "frame" >>
GenSteps ==
    << "borrower_id", "segment", "country", "origination", "maturity",
       "currency", "spread_retail", "spread_sme", "spread_corp",
       "interest_rate", "pd_retail", "pd_sme", "pd_corp", "pd_1y", "lgd",
       "ead", "has_collateral", "ltv_retail", "ltv_sme", "ltv_corp",
       "collateral", "is_default", "default_date", "dpd_default",
       "dpd_perf", "provision", "rating", "frame" >>

After(step) ==
    LET i == CHOOSE j \in DOMAIN GenSteps : GenSteps[j] = step
    IN  IF i < Len(GenSteps) THEN GenSteps[i + 1] ELSE "returned"

EmptyLocals ==
    [ loan_id |-> <<>>, borrower_id |-> <<>>, segment |-> <<>>,
      country |-> <<>>, origination_date |-> <<>>, maturity_date |-> <<>>,
      currency |-> <<>>, spread_retail |-> <<>>, spread_sme |-> <<>>,
      spread_corp |-> <<>>, interest_rate |-> <<>>, pd_retail |-> <<>>,
      pd_sme |-> <<>>, pd_corp |-> <<>>, pd_1y |-> <<>>, lgd |-> <<>>,
      ead |-> <<>>, has_collateral |-> <<>>, ltv_target |-> <<>>,
      collateral_value |-> <<>>, ltv |-> <<>>, is_default |-> <<>>,
      default_date |-> <<>>, k |-> 0, days_past_due |-> <<>>,
      provision_amount |-> <<>>, internal_rating |-> <<>> ]

\* A file on disk: whether it exists, whether its header is written, the
\* data rows written, and whether it was written to the end and closed.
NoFile == [exists |-> FALSE, header |-> FALSE, rows |-> 0, closed |-> FALSE]

Init ==
    /\ scenario \in Scenarios
    /\ n_loans \in LoanCounts
    /\ random_seed \in scenario.seeds
    /\ pc = "mkdir"
    /\ err = "none"
    /\ call = 0
    /\ rngpos = 0
    /\ tape = <<>>
    /\ loc = EmptyLocals
    /\ returned = <<>>
    /\ dirExists \in scenario.dir
    /\ csv = NoFile
    /\ xlsx = NoFile

env == <<scenario, n_loans, random_seed>>
files == <<dirExists, csv, xlsx>>

\* A step of generate_loan_portfolio that draws one column from the rng.
DrawColumn(step, req, S, field) ==
    /\ pc = step
    /\ \E v \in Outcomes(req, S) :
          /\ loc' = [loc EXCEPT ![field] = v]
          /\ Consume(step, req, v)
    /\ pc' = After(step)
    /\ UNCHANGED <<env, err, call, returned, files>>

\* A step of generate_loan_portfolio that draws nothing.
Compute(step, newloc) ==
    /\ pc = step
    /\ loc' = newloc
    /\ pc' = After(step)
    /\ UNCHANGED <<env, err, call, rngpos, tape, returned, files>>


(***************************************************************************)
(* generate_loan_portfolio, step by step.                                  *)
(***************************************************************************)
\* rng = default_rng(seed); loan_id = arange(1, n + 1);
\* borrower_id = rng.integers(1, n // 2 + 1, size=n)
BorrowerId ==
    LET high == n_loans \div 2 + 1
        req  == Req("integers", <<1, high>>, n_loans)
    IN  /\ pc = "borrower_id"
        /\ IF IntegersRaises(1, high, n_loans)
           THEN /\ pc' = "error"
                /\ err' = "ValueError"
                /\ loc' = EmptyLocals
                /\ UNCHANGED <<rngpos, tape>>
           ELSE /\ \E v \in Outcomes(req, VecOf(n_loans, IntegersRange(1, high))) :
                      /\ loc' = [loc EXCEPT !.loan_id = [i \in Rows |-> i],
                                            !.borrower_id = v]
                      /\ Consume("borrower_id", req, v)
                /\ pc' = After("borrower_id")
                /\ err' = err
        /\ UNCHANGED <<env, call, returned, files>>

\* segment = rng.choice(segments, size=n, p=[0.5, 0.3, 0.2])
Segment ==
    DrawColumn("segment", Req("choice", <<Len(segments)>> \o segment_p, n_loans),
               VecOf(n_loans, Pick(Range(segments), scenario.seg)), "segment")

\* country = rng.choice(countries, size=n)
Country ==
    DrawColumn("country", Req("choice", <<Len(countries)>>, n_loans),
               VecOf(n_loans, Pick(Range(countries), scenario.country)), "country")

\* origination_offset_days = rng.integers(0, 5 * 365, size=n);
\* origination_date = today - timedelta(days=d)
Origination ==
    LET req == Req("integers", <<0, 5 * 365>>, n_loans)
        S   == VecOf(n_loans, Pick(IntegersRange(0, 5 * 365), scenario.origOff))
    IN  /\ pc = "origination"
        /\ \E d \in Outcomes(req, S) :
              /\ loc' = [loc EXCEPT !.origination_date =
                                        [i \in Rows |-> today - d[i]]]
              /\ Consume("origination", req, d)
        /\ pc' = After("origination")
        /\ UNCHANGED <<env, err, call, returned, files>>

\* maturity_offset_years = rng.integers(1, 10, size=n);
\* maturity_date = od + timedelta(days=int(y * 365))
Maturity ==
    LET req == Req("integers", <<1, 10>>, n_loans)
        S   == VecOf(n_loans, Pick(IntegersRange(1, 10), scenario.matYears))
    IN  /\ pc = "maturity"
        /\ \E y \in Outcomes(req, S) :
              /\ loc' = [loc EXCEPT !.maturity_date =
                            [i \in Rows |-> loc.origination_date[i] + y[i] * 365]]
              /\ Consume("maturity", req, y)
        /\ pc' = After("maturity")
        /\ UNCHANGED <<env, err, call, returned, files>>

\* currency = rng.choice(currencies, size=n, p=[0.8, 0.15, 0.05])
Currency ==
    DrawColumn("currency", Req("choice", <<Len(currencies)>> \o currency_p, n_loans),
               VecOf(n_loans, Pick(Range(currencies), scenario.currency)), "currency")

\* spread_retail = rng.normal(0.02, 0.005, size=n)
SpreadRetail ==
    DrawColumn("spread_retail", Req("normal", <<200, 50>>, n_loans),
               VecOf(n_loans, Pick(NormalRange, scenario.spreadR)), "spread_retail")

\* spread_sme = rng.normal(0.03, 0.007, size=n)
SpreadSme ==
    DrawColumn("spread_sme", Req("normal", <<300, 70>>, n_loans),
               VecOf(n_loans, Pick(NormalRange, scenario.spreadS)), "spread_sme")

\* spread_corp = rng.normal(0.015, 0.004, size=n)
SpreadCorp ==
    DrawColumn("spread_corp", Req("normal", <<150, 40>>, n_loans),
               VecOf(n_loans, Pick(NormalRange, scenario.spreadC)), "spread_corp")

\* interest_rate[segment == s] = base_rate + spread_s[segment == s]
InterestRate ==
    Compute("interest_rate",
        [loc EXCEPT !.interest_rate =
            LET sel == SelectBySegment(loc.segment, loc.spread_retail,
                                       loc.spread_sme, loc.spread_corp)
            IN  [i \in Rows |-> base_rate + sel[i]]])

\* pd_retail = rng.beta(a=1.5, b=40, size=n)
PdRetail ==
    DrawColumn("pd_retail", Req("beta", <<15, 400>>, n_loans),
               VecOf(n_loans, Pick(BetaRange, scenario.pdR)), "pd_retail")

\* pd_sme = rng.beta(a=2.0, b=25, size=n)
PdSme ==
    DrawColumn("pd_sme", Req("beta", <<20, 250>>, n_loans),
               VecOf(n_loans, Pick(BetaRange, scenario.pdS)), "pd_sme")

\* pd_corp = rng.beta(a=1.2, b=35, size=n)
PdCorp ==
    DrawColumn("pd_corp", Req("beta", <<12, 350>>, n_loans),
               VecOf(n_loans, Pick(BetaRange, scenario.pdC)), "pd_corp")

\* pd_1y[segment == s] = pd_s[segment == s]
Pd1y ==
    Compute("pd_1y",
        [loc EXCEPT !.pd_1y = SelectBySegment(loc.segment, loc.pd_retail,
                                              loc.pd_sme, loc.pd_corp)])

\* lgd = rng.uniform(0.2, 0.7, size=n)
Lgd ==
    DrawColumn("lgd", Req("uniform", <<20, 70>>, n_loans),
               VecOf(n_loans, Pick(UniformRange(20, 70), scenario.lgd)), "lgd")

\* ead = np.exp(rng.normal(10, 1.0, size=n))
Ead ==
    DrawColumn("ead", Req("normal", <<10, 1>>, n_loans),
               VecOf(n_loans, Pick(LogNormalRange, scenario.ead)), "ead")

\* has_collateral = rng.choice([0, 1], size=n, p=[0.3, 0.7])
HasCollateral ==
    DrawColumn("has_collateral", Req("choice", <<2, 30, 70>>, n_loans),
               VecOf(n_loans, Pick({0, 1}, scenario.coll)), "has_collateral")

\* A full-length draw for every segment.
LtvDrawSizeFull(s) == n_loans
\* The size of the draw for one segment's LTV targets: (segment == s).sum()
LtvDrawSize(s) == Cardinality(Mask(loc.segment, s))

\* ltv_target[segment == s] = rng.uniform(a, b, size=(segment == s).sum())
LtvTarget(step, s, a, b, picks) ==
    LET req == Req("uniform", <<a, b>>, LtvDrawSize(s))
        S   == VecOf(LtvDrawSize(s), Pick(UniformRange(a, b), picks))
    IN  /\ pc = step
        /\ \E v \in Outcomes(req, S) :
              /\ loc' = [loc EXCEPT !.ltv_target =
                            MaskAssign(loc.ltv_target, Mask(loc.segment, s), v)]
              /\ Consume(step, req, v)
        /\ pc' = After(step)
        /\ UNCHANGED <<env, err, call, returned, files>>

LtvRetail == LtvTarget("ltv_retail", "Retail", 30, 80, scenario.ltvR)
LtvSme == LtvTarget("ltv_sme", "SME", 40, 90, scenario.ltvS)
LtvCorp == LtvTarget("ltv_corp", "Corporate", 20, 90, scenario.ltvC)

\* collateral_value = 0, and ead / ltv_target where has_collateral == 1
CollateralValue(has, ead, target) ==
    [i \in DOMAIN has |-> IF has[i] = 1 THEN FDiv(ead[i] * 100, target[i]) ELSE 0]

\* ltv started from zeros instead of NaN.
LtvFromZeros(ead, coll) ==
    [i \in DOMAIN coll |->
        IF coll[i] > 0 THEN <<FDiv(ead[i] * 100, coll[i])>> ELSE <<0>>]
\* ltv = NaN, and ead / collateral_value where collateral_value > 0
Ltv(ead, coll) ==
    [i \in DOMAIN coll |->
        IF coll[i] > 0 THEN <<FDiv(ead[i] * 100, coll[i])>> ELSE NaN]

Collateral ==
    Compute("collateral",
        LET cv == CollateralValue(loc.has_collateral, loc.ead, loc.ltv_target)
        IN  [loc EXCEPT !.collateral_value = cv, !.ltv = Ltv(loc.ead, cv)])


\* is_default = rng.binomial(1, pd_1y); default_date = Series of NaT;
\* default_indices = np.where(is_default == 1)[0]
IsDefault ==
    LET req == Req("binomial", <<1>> \o loc.pd_1y, n_loans)
        S   == {v \in VecOf(n_loans, {0, 1}) :
                   \A i \in Rows : v[i] \in Pick(BinomialRange(loc.pd_1y[i]),
                                                scenario.bern)}
    IN  /\ pc = "is_default"
        /\ \E v \in Outcomes(req, S) :
              /\ loc' = [loc EXCEPT !.is_default = v,
                                    !.default_date = [i \in Rows |-> NaT],
                                    !.k = 1]
              /\ Consume("is_default", req, v)
        /\ pc' = After("is_default")
        /\ UNCHANGED <<env, err, call, returned, files>>

default_indices == Mask(loc.is_default, 1)

\* The test written as end < start.
WindowEmptyStrict(start, end) == end < start
\* if end <= start: the window has no day after origination
WindowEmpty(start, end) == end <= start

\* An upper bound one day too far.
OffsetHighTooFar(delta_days) == delta_days + 2
\* rng.integers(0, delta_days + 1): the exclusive upper bound of the offset
OffsetHigh(delta_days) == delta_days + 1

\* One iteration of: for idx in default_indices
DefaultDateIter ==
    /\ pc = "default_date"
    /\ loc.k <= Cardinality(default_indices)
    /\ LET idx   == Nth(default_indices, loc.k)
           start == loc.origination_date[idx]
           end   == Min(today, loc.maturity_date[idx])
           req   == Req("integers", <<0, OffsetHigh(end - start)>>, 1)
       IN  IF WindowEmpty(start, end)
           THEN /\ loc' = [loc EXCEPT !.default_date[idx] = NaT, !.k = @ + 1]
                /\ UNCHANGED <<rngpos, tape>>
           ELSE \E offset \in Outcomes(req,
                      Pick(IntegersRange(0, OffsetHigh(end - start)), scenario.ddOff)) :
                   /\ loc' = [loc EXCEPT !.default_date[idx] = <<start + offset>>,
                                         !.k = @ + 1]
                   /\ Consume("default_date", req, offset)
    /\ UNCHANGED <<env, pc, err, call, returned, files>>

\* The loop is over: default_date = default_date.to_numpy()
DefaultDateDone ==
    /\ pc = "default_date"
    /\ loc.k > Cardinality(default_indices)
    /\ loc' = [loc EXCEPT !.k = 0]
    /\ pc' = After("default_date")
    /\ UNCHANGED <<env, err, call, rngpos, tape, returned, files>>

\* days_past_due = zeros;
\* days_past_due[is_default == 1] = rng.integers(90, 361, size=(is_default == 1).sum())
DpdDefault ==
    LET mask == Mask(loc.is_default, 1)
        req  == Req("integers", <<90, 361>>, Cardinality(mask))
        S    == VecOf(Cardinality(mask), Pick(IntegersRange(90, 361), scenario.dpdDef))
    IN  /\ pc = "dpd_default"
        /\ \E v \in Outcomes(req, S) :
              /\ loc' = [loc EXCEPT !.days_past_due =
                            MaskAssign([i \in Rows |-> 0], mask, v)]
              /\ Consume("dpd_default", req, v)
        /\ pc' = After("dpd_default")
        /\ UNCHANGED <<env, err, call, returned, files>>

\* days_past_due[is_default == 0] = rng.integers(0, 30, size=(is_default == 0).sum())
DpdPerf ==
    LET mask == Mask(loc.is_default, 0)
        req  == Req("integers", <<0, 30>>, Cardinality(mask))
        S    == VecOf(Cardinality(mask), Pick(IntegersRange(0, 30), scenario.dpdPerf))
    IN  /\ pc = "dpd_perf"
        /\ \E v \in Outcomes(req, S) :
              /\ loc' = [loc EXCEPT !.days_past_due =
                            MaskAssign(loc.days_past_due, mask, v)]
              /\ Consume("dpd_perf", req, v)
        /\ pc' = After("dpd_perf")
        /\ UNCHANGED <<env, err, call, returned, files>>

\* expected_loss = pd_1y * lgd * ead;
\* provision_amount = expected_loss * rng.uniform(0.8, 1.2, size=n)
Provision ==
    LET req == Req("uniform", <<80, 120>>, n_loans)
        S   == VecOf(n_loans, Pick(UniformRange(80, 120), scenario.noise))
    IN  /\ pc = "provision"
        /\ \E noise \in Outcomes(req, S) :
              /\ loc' = [loc EXCEPT !.provision_amount =
                            [i \in Rows |->
                                FMul(ExpectedLoss(loc.pd_1y[i], loc.lgd[i], loc.ead[i]),
                                     noise[i])]]
              /\ Consume("provision", req, noise)
        /\ pc' = After("provision")
        /\ UNCHANGED <<env, err, call, returned, files>>

\* internal_rating = pd.cut(pd_1y, bins=rating_bins, labels=rating_labels,
\*                          include_lowest=True)
Rating ==
    Compute("rating",
        [loc EXCEPT !.internal_rating = [i \in Rows |-> Cut(loc.pd_1y[i])]])

\* df = pd.DataFrame({...}) with the three date columns turned into dates
DataFrame ==
    [ loan_id          |-> loc.loan_id,
      borrower_id      |-> loc.borrower_id,
      segment          |-> loc.segment,
      country          |-> loc.country,
      origination_date |-> [i \in Rows |-> DtDate(loc.origination_date[i])],
      maturity_date    |-> [i \in Rows |-> DtDate(loc.maturity_date[i])],
      currency         |-> loc.currency,
      interest_rate    |-> loc.interest_rate,
      pd_1y            |-> loc.pd_1y,
      lgd              |-> loc.lgd,
      ead              |-> loc.ead,
      collateral_value |-> loc.collateral_value,
      ltv              |-> loc.ltv,
      is_default       |-> loc.is_default,
      default_date     |-> [i \in Rows |-> DtDate(loc.default_date[i])],
      days_past_due    |-> loc.days_past_due,
      provision_amount |-> loc.provision_amount,
      internal_rating  |-> loc.internal_rating ]

\* return df: the locals go, the caller holds the DataFrame
Frame ==
    /\ pc = "frame"
    /\ returned' = Append(returned, DataFrame)
    /\ loc' = EmptyLocals
    /\ pc' = IF call = 1 THEN After("frame") ELSE "recalled"
    /\ UNCHANGED <<env, err, call, rngpos, tape, files>>

(***************************************************************************)
(* main, and a caller that asks for the same portfolio again.              *)
(***************************************************************************)
\* DATA_DIR.mkdir(exist_ok=True)
Mkdir ==
    /\ pc = "mkdir"
    /\ dirExists' = TRUE
    /\ pc' = "generate"
    /\ UNCHANGED <<env, err, call, rngpos, tape, loc, returned, csv, xlsx>>

\* df = generate_loan_portfolio(n_loans, random_seed)
CallGenerate ==
    /\ pc = "generate"
    /\ call' = 1
    /\ rngpos' = 0
    /\ loc' = EmptyLocals
    /\ pc' = GenSteps[1]
    /\ UNCHANGED <<env, err, tape, returned, files>>

\* A second call of generate_loan_portfolio with the same arguments.
CallAgain ==
    /\ pc = "returned"
    /\ call = 1
    /\ call' = 2
    /\ rngpos' = 0
    /\ loc' = EmptyLocals
    /\ pc' = GenSteps[1]
    /\ UNCHANGED <<env, err, tape, returned, files>>

\* df.to_csv(csv_path, index=False): the destination is opened for writing,
\* which creates or truncates it, ...
ToCsvOpen ==
    /\ pc = "returned"
    /\ call = 1
    /\ csv' = [exists |-> TRUE, header |-> FALSE, rows |-> 0, closed |-> FALSE]
    /\ pc' = "csv_header"
    /\ UNCHANGED <<env, err, call, rngpos, tape, loc, returned, dirExists, xlsx>>

\* ... the header row is written, ...
ToCsvHeader ==
    /\ pc = "csv_header"
    /\ csv' = [csv EXCEPT !.header = TRUE]
    /\ pc' = "csv_rows"
    /\ UNCHANGED <<env, err, call, rngpos, tape, loc, returned, dirExists, xlsx>>

\* ... then the data rows, ...
ToCsvRow ==
    /\ pc = "csv_rows"
    /\ csv.rows < Len(returned[1].loan_id)
    /\ csv' = [csv EXCEPT !.rows = @ + 1]
    /\ UNCHANGED <<env, pc, err, call, rngpos, tape, loc, returned, dirExists, xlsx>>

\* ... and the file is closed.
ToCsvClose ==
    /\ pc = "csv_rows"
    /\ csv.rows = Len(returned[1].loan_id)
    /\ csv' = [csv EXCEPT !.closed = TRUE]
    /\ pc' = "to_excel"
    /\ UNCHANGED <<env, err, call, rngpos, tape, loc, returned, dirExists, xlsx>>

\* df.to_excel(xlsx_path, index=False): the destination is opened for
\* writing, the sheet is built in memory, ...
ToExcelOpen ==
    /\ pc = "to_excel"
    /\ xlsx' = [exists |-> TRUE, header |-> FALSE, rows |-> 0, closed |-> FALSE]
    /\ pc' = "xlsx_save"
    /\ UNCHANGED <<env, err, call, rngpos, tape, loc, returned, dirExists, csv>>

\* ... and the workbook is saved into the file on close.
ToExcelSave ==
    /\ pc = "xlsx_save"
    /\ xlsx' = [exists |-> TRUE, header |-> TRUE,
                rows |-> Len(returned[1].loan_id), closed |-> TRUE]
    /\ pc' = "print"
    /\ UNCHANGED <<env, err, call, rngpos, tape, loc, returned, dirExists, csv>>

\* print(f"Saved loan portfolio to: ...")
PrintSaved ==
    /\ pc = "print"
    /\ pc' = "done"
    /\ UNCHANGED <<env, err, call, rngpos, tape, loc, returned, files>>

\* An OSError of the file system (no permission, disk full, file locked)
\* while main creates the directory or writes a file.  main catches nothing
\* and removes nothing: what is on disk stays as it is.
IOSteps == {"csv_header", "csv_rows", "to_excel", "xlsx_save"}

IOFault ==
    /\ scenario.faults
    /\ \/ pc = "mkdir" /\ ~dirExists
       \/ pc = "returned" /\ call = 1
       \/ pc \in IOSteps
    /\ pc' = "error"
    /\ err' = "OSError"
    /\ UNCHANGED <<env, call, rngpos, tape, loc, returned, files>>

Next ==
    \/ Mkdir \/ CallGenerate \/ CallAgain
    \/ BorrowerId \/ Segment \/ Country \/ Origination \/ Maturity \/ Currency
    \/ SpreadRetail \/ SpreadSme \/ SpreadCorp \/ InterestRate
    \/ PdRetail \/ PdSme \/ PdCorp \/ Pd1y \/ Lgd \/ Ead
    \/ HasCollateral \/ LtvRetail \/ LtvSme \/ LtvCorp \/ Collateral
    \/ IsDefault \/ DefaultDateIter \/ DefaultDateDone
    \/ DpdDefault \/ DpdPerf \/ Provision \/ Rating \/ Frame
    \/ ToCsvOpen \/ ToCsvHeader \/ ToCsvRow \/ ToCsvClose
    \/ ToExcelOpen \/ ToExcelSave \/ PrintSaved \/ IOFault

Spec == Init /\ [][Next]_vars


(***************************************************************************)
(* Properties.                                                             *)
(***************************************************************************)
Frames == {returned[c] : c \in DOMAIN returned}
RowsOf(df) == DOMAIN df.loan_id
TapeEntry(g) == tape[CHOOSE k \in DOMAIN tape : tape[k].group = g]
\* The first call has all its locals and is about to build the DataFrame.
AtFrame == call = 1 /\ pc = "frame"
WindowDays(df, i) == Min(today, df.maturity_date[i]) - df.origination_date[i]

\* C1: for every positive loan_count and every seed, generation completes
\* without error and returns exactly loan_count records with loan_id 1..N and
\* every borrower_id in [1, N/2].
C1_PositiveCountReturnsPortfolio ==
    n_loans >= 1 =>
        /\ err # "ValueError"
        /\ \A df \in Frames :
              /\ Len(df.loan_id) = n_loans
              /\ df.loan_id = [i \in 1 .. n_loans |-> i]
              /\ Len(df.borrower_id) = n_loans
              /\ \A i \in RowsOf(df) : df.borrower_id[i] \in 1 .. (n_loans \div 2)

\* C2: two calls with the same (loan_count, seed) return identical datasets
\* in every field.
C2_SameArgumentsSameDataset ==
    Len(returned) = 2 => returned[1] = returned[2]

C2_Witness ==
    /\ Len(returned) = 2
    /\ \E i, j \in RowsOf(returned[2]) :
          /\ returned[2].is_default[i] = 1
          /\ returned[2].default_date[i] # NaT
          /\ returned[2].default_date[i] # <<returned[2].origination_date[i]>>
          /\ returned[2].is_default[j] = 0

\* C3 as stated: internal_rating is the bucket of pd_1y under lower-inclusive,
\* upper-exclusive boundaries, [0,0.5%) AAA, [0.5%,1%) AA, [1%,2%) A,
\* [2%,5%) BBB, [5%,100%] BB/B.
C3_LowerInclusiveBuckets ==
    \A df \in Frames : \A i \in RowsOf(df) :
        LET p == df.pd_1y[i]
            r == df.internal_rating[i]
        IN  /\ (0 <= p /\ p < 50) => r = "AAA"
            /\ (50 <= p /\ p < 100) => r = "AA"
            /\ (100 <= p /\ p < 200) => r = "A"
            /\ (200 <= p /\ p < 500) => r = "BBB"
            /\ (500 <= p /\ p <= 10000) => r = "BB/B"

\* C3 amended: internal_rating is the bucket of pd_1y under lower-exclusive,
\* upper-inclusive boundaries with 0 included, [0,0.5%] AAA, (0.5%,1%] AA,
\* (1%,2%] A, (2%,5%] BBB, (5%,100%] BB/B.
C3_UpperInclusiveBuckets ==
    \A df \in Frames : \A i \in RowsOf(df) :
        LET p == df.pd_1y[i]
            r == df.internal_rating[i]
        IN  /\ (0 <= p /\ p <= 50) => r = "AAA"
            /\ (50 < p /\ p <= 100) => r = "AA"
            /\ (100 < p /\ p <= 200) => r = "A"
            /\ (200 < p /\ p <= 500) => r = "BBB"
            /\ (500 < p /\ p <= 10000) => r = "BB/B"

C3_Witness ==
    \E df \in Frames : \E i, j \in RowsOf(df) :
        /\ df.pd_1y[i] = 50 /\ df.internal_rating[i] = "AAA"
        /\ df.pd_1y[j] = 500 /\ df.internal_rating[j] = "BBB"

\* C4: default_date is present if and only if is_default is 1 and the window
\* from origination_date to min(reference date, maturity_date) has strictly
\* positive length.
C4_DefaultDatePresentIff ==
    \A df \in Frames : \A i \in RowsOf(df) :
        df.default_date[i] # NaT <=>
            (df.is_default[i] = 1 /\ WindowDays(df, i) > 0)

C4_Witness ==
    \E df \in Frames : \E i, j \in RowsOf(df) :
        /\ df.is_default[i] = 1
        /\ df.origination_date[i] = today
        /\ df.default_date[i] = NaT
        /\ df.is_default[j] = 1
        /\ df.default_date[j] # NaT

\* C5: for every row whose default_date is present,
\* origination_date <= default_date <= min(reference date, maturity_date).
C5_DefaultDateInWindow ==
    \A df \in Frames : \A i \in RowsOf(df) :
        df.default_date[i] # NaT =>
            /\ df.origination_date[i] <= df.default_date[i][1]
            /\ df.default_date[i][1] <= Min(today, df.maturity_date[i])

C5_Witness ==
    \E df \in Frames : \E i, j \in RowsOf(df) :
        /\ df.default_date[i] # NaT
        /\ df.maturity_date[i] < today
        /\ df.default_date[i][1] = df.maturity_date[i]
        /\ df.default_date[j] # NaT
        /\ df.maturity_date[j] > today
        /\ df.default_date[j][1] = today

\* C6: where the has_collateral draw is 0, collateral_value is 0 and ltv is
\* missing; where collateral_value > 0, ltv is present and equals
\* ead / collateral_value.
C6_CollateralAndLtv ==
    pc = "frame" =>
        \A i \in RowsOf(DataFrame) :
            /\ loc.has_collateral[i] = 0 =>
                  /\ DataFrame.collateral_value[i] = 0
                  /\ DataFrame.ltv[i] = NaN
            /\ DataFrame.collateral_value[i] > 0 =>
                  /\ DataFrame.ltv[i] # NaN
                  /\ DataFrame.ltv[i] =
                        <<FDiv(DataFrame.ead[i] * 100, DataFrame.collateral_value[i])>>

C6_Witness ==
    /\ pc = "frame"
    /\ \E i, j \in RowsOf(DataFrame) :
          /\ loc.has_collateral[i] = 0
          /\ DataFrame.ltv[i] = NaN
          /\ DataFrame.collateral_value[j] > 0
          /\ DataFrame.ltv[j] # NaN

\* C7: a call with a negative loan_count fails with an invalid-argument error
\* before any value is consumed from the random source, returns no dataset,
\* and no output file is produced.
C7_NegativeCountFailsFast ==
    n_loans < 0 =>
        /\ rngpos = 0
        /\ tape = <<>>
        /\ returned = <<>>
        /\ ~csv.exists
        /\ ~xlsx.exists
        /\ (call >= 1 /\ pc # "borrower_id") => (pc = "error" /\ err = "ValueError")

C7_Witness ==
    n_loans < 0 /\ call = 1 /\ pc = "error" /\ err = "ValueError"

\* C8: the writer is all-or-nothing per file: after any run each output file
\* is either complete (header plus loan_count rows) or absent.
FileComplete(f) == f.exists /\ f.header /\ f.closed /\ f.rows = n_loans

C8_WriterAllOrNothing ==
    pc \in {"done", "error"} =>
        /\ ~csv.exists \/ FileComplete(csv)
        /\ ~xlsx.exists \/ FileComplete(xlsx)

\* C9: the random source is consumed in this order of draw groups, each group
\* finishing before the next starts: borrower_id, segment, country,
\* origination offset and maturity offset, currency, rate spreads, PD, LGD,
\* EAD, collateral flag and LTV target, default flags, default-date offsets,
\* days past due, provision noise; the rating step consumes no draw.
GroupOf(step) ==
    CASE step \in {"spread_retail", "spread_sme", "spread_corp"} -> "rate spreads"
      [] step \in {"pd_retail", "pd_sme", "pd_corp"} -> "PD"
      [] step \in {"ltv_retail", "ltv_sme", "ltv_corp"} -> "LTV target"
      [] step \in {"dpd_default", "dpd_perf"} -> "days past due"
      [] OTHER -> step

ClaimedOrder ==
    << "borrower_id", "segment", "country", "origination", "maturity",
       "currency", "rate spreads", "rate spreads", "rate spreads",
       "PD", "PD", "PD", "lgd", "ead", "has_collateral",
       "LTV target", "LTV target", "LTV target", "is_default",
       "days past due", "days past due", "provision" >>

DrawGroups == [k \in DOMAIN tape |-> GroupOf(tape[k].group)]
NotDefaultDate(g) == g # "default_date"

C9_DrawOrder ==
    LET fixed == SelectSeq(DrawGroups, NotDefaultDate)
    IN  /\ Len(fixed) <= Len(ClaimedOrder)
        /\ fixed = SubSeq(ClaimedOrder, 1, Len(fixed))
        /\ Len(returned) >= 1 => fixed = ClaimedOrder
        /\ \A k \in DOMAIN tape :
              DrawGroups[k] = "default_date" =>
                  /\ \E j \in 1 .. (k - 1) : DrawGroups[j] = "is_default"
                  /\ \A j \in 1 .. (k - 1) :
                        DrawGroups[j] \notin {"days past due", "provision"}

C9_Witness ==
    /\ Len(returned) >= 1
    /\ \E k \in DOMAIN tape : DrawGroups[k] = "default_date"

\* C10 as stated: for rate spread, PD and LTV target alike, every draw call
\* has full length loan_count and each row takes the element at its own
\* index from the vector of its segment.
SpreadStep == [s \in AllSegments |->
    CASE s = "Retail" -> "spread_retail" [] s = "SME" -> "spread_sme"
      [] s = "Corporate" -> "spread_corp"]
PdStep == [s \in AllSegments |->
    CASE s = "Retail" -> "pd_retail" [] s = "SME" -> "pd_sme"
      [] s = "Corporate" -> "pd_corp"]
LtvStep == [s \in AllSegments |->
    CASE s = "Retail" -> "ltv_retail" [] s = "SME" -> "ltv_sme"
      [] s = "Corporate" -> "ltv_corp"]

FullLengthOwnIndex(col, stepOf, offset) ==
    /\ \A s \in AllSegments : TapeEntry(stepOf[s]).req.size = n_loans
    /\ \A i \in Rows :
          /\ i \in DOMAIN TapeEntry(stepOf[loc.segment[i]]).val
          /\ col[i] = offset + TapeEntry(stepOf[loc.segment[i]]).val[i]

C10_FullLengthForAllThree ==
    AtFrame =>
        /\ FullLengthOwnIndex(loc.interest_rate, SpreadStep, base_rate)
        /\ FullLengthOwnIndex(loc.pd_1y, PdStep, 0)
        /\ FullLengthOwnIndex(loc.ltv_target, LtvStep, 0)

\* C10 amended: rate spread and PD are drawn as full-length vectors and each
\* row takes the element at its own index from the vector of its segment; the
\* LTV target is drawn per segment with as many elements as the segment has
\* rows, and the k-th row of a segment takes the k-th element of its draw.
C10_FullLengthForSpreadAndPd ==
    AtFrame =>
        /\ FullLengthOwnIndex(loc.interest_rate, SpreadStep, base_rate)
        /\ FullLengthOwnIndex(loc.pd_1y, PdStep, 0)
        /\ \A s \in AllSegments :
              TapeEntry(LtvStep[s]).req.size = Cardinality(Mask(loc.segment, s))
        /\ \A i \in Rows :
              loc.ltv_target[i] =
                  TapeEntry(LtvStep[loc.segment[i]]).val[
                      RankIn(Mask(loc.segment, loc.segment[i]), i)]

C10_Witness ==
    /\ AtFrame
    /\ n_loans = 2
    /\ loc.segment[1] # loc.segment[2]
    /\ loc.segment[2] = "Retail"
    /\ loc.ltv_target[2] = TapeEntry("ltv_retail").val[1]
    /\ loc.interest_rate[1] # loc.interest_rate[2]

====
